---- MODULE Spec2Model ----
(***************************************************************************)
(* Model of scale/users.py: the User class that provisions one identity    *)
(* account, its role binding, an optional keypair and N routers against    *)
(* the identity (keystone), compute (nova) and network (neutron) services. *)
(*                                                                         *)
(* Every method of User is a sequence of blocking calls into external      *)
(* services.  One action of the model is one such call together with the   *)
(* local code that runs up to the next call; frame[u].pc is the position   *)
(* of instance u inside the method it is executing.  Each external call    *)
(* either returns or raises; what it raises is chosen nondeterministically *)
(* except where the service's own state decides (duplicate name, missing   *)
(* account).                                                               *)
(***************************************************************************)
EXTENDS Integers, Sequences, FiniteSets, TLC

\* ------------------------------------------------------------------ bounds
\* largest routers_per_user that is configured
MaxRouters ==
  2

\* number of create_resources/delete_resources calls made on one User
MaxOps ==
  2

\* ------------------------------------------------------------ value spaces
\* the User instances; Spec runs the first one alone
Users ==
  {"U1", "U2"}

UserNames ==
  {"alice", "bob"}

RoleNames ==
  {"admin"}

\* Python's None for string-valued fields
None ==
  "None"

\* Python's None for the client handles (a handle is its credential tuple)
NoClient ==
  << >>

\* results of roles.list() that the identity service may hold
RoleLists ==
  { << [id |-> "r1", name |-> "member"] >>,
    << [id |-> "r1", name |-> "member"], [id |-> "r2", name |-> "admin"],
       [id |-> "r3", name |-> "admin"] >> }

\* values of scale_cfg.public_key_file: unset or a path
KeyFiles ==
  {None, "id_rsa.pub"}

\* the scale configurations: redis_server is a key that may be absent
ScaleCfgs ==
  LET base == [public_key_file : KeyFiles,
               use_floatingip : BOOLEAN,
               routers_per_user : 0..MaxRouters]
  IN  base \cup { [k \in {"public_key_file", "use_floatingip",
                          "routers_per_user", "redis_server"} |->
                     IF k = "redis_server" THEN "172.16.0.9:6379" ELSE b[k]] :
                  b \in base }

\* what find_external_network may return
ExternalNetworks ==
  {"ext-net"}

\* ------------------------------------------------------------- exceptions
\* the result of a call: Ok or the exception it raised
Exc(t, s, m) ==
  [type |-> t, http_status |-> s, msg |-> m]

Ok ==
  Exc("ok", 0, "")

\* outcome of a method that has not returned yet
InProgress ==
  Exc("running", 0, "")

\* errors users.create can raise whatever the state of the service
CreateFailures ==
  { Exc("Conflict", 400, ""), Exc("ClientException", 409, ""),
    Exc("InternalServerError", 500, "") }

Duplicate ==
  Exc("Conflict", 409, "")

NotFound ==
  Exc("NotFound", 404, "")

ServiceError ==
  Exc("InternalServerError", 500, "")

VARIABLES
  accounts,       \* identity service: the accounts, records [id, name]
  nextId,         \* identity service: number of the next account id
  role_bindings,  \* identity service: <<user id, role id, tenant id>>
  roles,          \* identity service: what roles.list() returns
  scale_cfg,      \* tenant.kloud.scale_cfg
  self,           \* self[u]: the fields of User instance u
  frame,          \* frame[u]: method being run, position, local variables
  calls,          \* calls[u]: external calls issued by the current method
  outcome,        \* outcome[u]: InProgress, else result of the last method
  entry           \* entry[u]: the fields of u when its current method began

vars ==
  << accounts, nextId, role_bindings, roles, scale_cfg,
     self, frame, calls, outcome, entry >>

\* ------------------------------------------------------------------ helpers
\* a logged call: its arguments, what it raised (Ok if nothing), its result
Call(op, args, exc, ret) ==
  [op |-> op, args |-> args, exc |-> exc, ret |-> ret]

\* the tenant every User of the run belongs to
Tenant ==
  [tenant_id |-> "T1", tenant_name |-> "KBs-T0", auth_url |-> "http://ks:5000/v2.0"]

AccountId(n) ==
  "u" \o ToString(n)

\* users.list(): the accounts in creation order
RECURSIVE ListUsers(_, _)
ListUsers(accts, n) ==
  IF n = 0 THEN << >>
  ELSE LET rest == ListUsers(accts, n - 1)
           here == { a \in accts : a.id = AccountId(n) }
       IN  IF here = {} THEN rest ELSE Append(rest, CHOOSE a \in here : TRUE)

\* variant: the http_status test of the handler is missing
IsStaleConflict_AnyStatus(exc) ==
  exc.type = "Conflict"

\* except keystone_exception.Conflict as exc: if exc.http_status != 409: raise
IsStaleConflict(exc) ==
  exc.type = "Conflict" /\ exc.http_status = 409

\* variant: the name comparison is missing, the first listed account is taken
FindStale_IgnoreName(users_list, name) ==
  IF users_list = << >> THEN None ELSE users_list[1].id

\* for user in users_list: if user.name == self.user_name
\* the id of the first account of the listing with that name, else None
FindStale(users_list, name) ==
  LET hits == { i \in 1..Len(users_list) : users_list[i].name = name }
  IN  IF hits = {} THEN None
      ELSE users_list[CHOOSE i \in hits : \A j \in hits : i <= j].id

\* variant: the break is missing, the last role of that name is taken
FindRole_Last(role_list, user_role) ==
  LET hits == { i \in 1..Len(role_list) : role_list[i].name = user_role }
  IN  IF hits = {} THEN None
      ELSE role_list[CHOOSE i \in hits : \A j \in hits : i >= j].id

\* for role in roles.list(): if role.name == user_role: current_role = role
FindRole(role_list, user_role) ==
  LET hits == { i \in 1..Len(role_list) : role_list[i].name = user_role }
  IN  IF hits = {} THEN None
      ELSE role_list[CHOOSE i \in hits : \A j \in hits : i <= j].id

\* ---------------------------------------------------------- initial state
BlankUser ==
  [user_name |-> None, tenant |-> Tenant, user_id |-> None,
   router_list |-> << >>, neutron_client |-> NoClient,
   nova_client |-> NoClient, admin_user |-> None,
   key_pair |-> None, key_name |-> None]

\* frame of an instance that runs no method: no local variable is live
BlankFrame ==
  [pc |-> "unused", method |-> None, user_role |-> None, stale |-> None,
   current_role |-> None, external_network |-> None, router_count |-> 0,
   router |-> 0, ops |-> 0, ret |-> None]

\* leftover accounts of past runs: any subset of the names, ids u1, u2
StaleSets ==
  { {}, {[id |-> "u1", name |-> "alice"]},
    {[id |-> "u1", name |-> "alice"], [id |-> "u2", name |-> "bob"]} }

InitShared ==
  /\ accounts \in StaleSets
  /\ nextId = Cardinality(accounts) + 1
  /\ role_bindings = {}
  /\ roles \in RoleLists
  /\ scale_cfg \in ScaleCfgs
  /\ self = [u \in Users |-> BlankUser]
  /\ calls = [u \in Users |-> << >>]
  /\ outcome = [u \in Users |-> InProgress]
  /\ entry = [u \in Users |-> BlankUser]

\* one User is constructed and used
Init ==
  /\ InitShared
  /\ frame = [u \in Users |->
                IF u = "U1" THEN [BlankFrame EXCEPT !.pc = "new"]
                ELSE BlankFrame]

\* ------------------------------------------------------------ bookkeeping
\* instance u has issued call c; its fields, frame and outcome become s, f, out
Advance(u, c, s, f, out) ==
  /\ calls' = [calls EXCEPT ![u] = Append(@, c)]
  /\ self' = [self EXCEPT ![u] = s]
  /\ frame' = [frame EXCEPT ![u] = f]
  /\ outcome' = [outcome EXCEPT ![u] = out]

At(u, pc) ==
  frame[u].pc = pc

Goto(u, pc) ==
  [frame[u] EXCEPT !.pc = pc]

\* frame of u once its method has returned or raised to the caller
Returned(u) ==
  [BlankFrame EXCEPT !.pc = "ready", !.method = frame[u].method,
                     !.ops = frame[u].ops]

\* ----------------------------------------------------- identity service
AccountExists(id) ==
  \E a \in accounts : a.id = id

\* users.create(name=...): the results the service can give
CreateResults(name) ==
  (IF \E a \in accounts : a.name = name THEN {Duplicate} ELSE {Ok})
    \cup CreateFailures

\* users.delete(id): the results the service can give
DeleteResults(id) ==
  (IF AccountExists(id) THEN {Ok} ELSE {NotFound}) \cup {ServiceError}

\* roles.add_user_role(user, role, tenant): the results the service can give
AddRoleResults(user, role) ==
  (IF role # None /\ AccountExists(user) THEN {Ok} ELSE {NotFound})
    \cup {ServiceError}

\* effect of users.create(name) with result res on the service
KeystoneCreate(name, res) ==
  IF res = Ok
    THEN /\ accounts' = accounts \cup {[id |-> AccountId(nextId), name |-> name]}
         /\ nextId' = nextId + 1
    ELSE UNCHANGED << accounts, nextId >>

\* effect of users.delete(id) with result res on the service
KeystoneDelete(id, res) ==
  /\ accounts' = IF res = Ok THEN { a \in accounts : a.id # id } ELSE accounts
  /\ UNCHANGED nextId

\* --------------------------------------------------------------- __init__
\* self._create_user(): the logged users.create call
CreateCall(name, res) ==
  Call("users.create", <<name, name, "kloudbuster@localhost", Tenant.tenant_id>>,
       res, IF res = Ok THEN AccountId(nextId) ELSE None)

\* variant: the account is repaired even though users.create succeeded
AfterFirstCreate_RepairAlways(res) ==
  IF res = Ok \/ IsStaleConflict(res) THEN "users_list" ELSE "dead"

\* where _get_user goes after the first users.create raised or returned
AfterFirstCreate(res) ==
  IF res = Ok THEN "roles_list"
  ELSE IF IsStaleConflict(res) THEN "users_list"
  ELSE "dead"

\* User(user_name, tenant, user_role) up to the first users.create
Construct(u) ==
  /\ At(u, "new")
  /\ \E name \in UserNames, user_role \in RoleNames :
       \E res \in CreateResults(name) :
         LET s0 == [BlankUser EXCEPT !.user_name = name]
             f0 == [frame[u] EXCEPT !.method = "__init__",
                                    !.user_role = user_role,
                                    !.pc = AfterFirstCreate(res)]
         IN  /\ KeystoneCreate(name, res)
             /\ calls' = [calls EXCEPT ![u] = << CreateCall(name, res) >>]
             /\ self' = [self EXCEPT ![u] =
                           IF res = Ok
                             THEN [s0 EXCEPT !.admin_user = AccountId(nextId)]
                             ELSE s0]
             /\ frame' = [frame EXCEPT ![u] = f0]
             /\ outcome' = [outcome EXCEPT ![u] =
                              IF f0.pc = "dead" THEN res ELSE InProgress]
  /\ UNCHANGED << role_bindings, roles, scale_cfg, entry >>

\* _get_user: users.list() and the search for the stale account
ListUsersStep(u) ==
  /\ At(u, "users_list")
  /\ \E res \in {Ok, ServiceError} :
       LET users_list == ListUsers(accounts, nextId - 1)
           found == FindStale(users_list, self[u].user_name)
           c == Call("users.list", << >>, res,
                     IF res = Ok THEN users_list ELSE << >>)
       IN  IF res # Ok
             THEN Advance(u, c, self[u], Goto(u, "dead"), res)
           ELSE IF found = None
             THEN Advance(u, c, self[u], Goto(u, "dead"),
                          Exc("Exception", 0,
                              "Cannot find stale user:" \o self[u].user_name))
           ELSE Advance(u, c, self[u],
                        [frame[u] EXCEPT !.pc = "delete_stale", !.stale = found],
                        InProgress)
  /\ UNCHANGED << accounts, nextId, role_bindings, roles, scale_cfg, entry >>

\* variant: the stale account is reported deleted but is left in place
DeleteStale_NoDelete(u) ==
  /\ At(u, "delete_stale")
  /\ \E res \in DeleteResults(frame[u].stale) :
       Advance(u, Call("users.delete", <<frame[u].stale>>, res, None),
               self[u],
               Goto(u, IF res = Ok THEN "create_retry" ELSE "dead"),
               IF res = Ok THEN InProgress ELSE res)
  /\ UNCHANGED << accounts, nextId, role_bindings, roles, scale_cfg, entry >>

\* variant: whatever account holds the name now is deleted, not the listed one
DeleteStale_ByName(u) ==
  /\ At(u, "delete_stale")
  /\ \E res \in (IF \E a \in accounts : a.name = self[u].user_name
                   THEN {Ok} ELSE {NotFound}) \cup {ServiceError} :
       /\ accounts' = IF res = Ok
                        THEN { a \in accounts : a.name # self[u].user_name }
                        ELSE accounts
       /\ UNCHANGED nextId
       /\ Advance(u, Call("users.delete", <<frame[u].stale>>, res, None),
                  self[u],
                  Goto(u, IF res = Ok THEN "create_retry" ELSE "dead"),
                  IF res = Ok THEN InProgress ELSE res)
  /\ UNCHANGED << role_bindings, roles, scale_cfg, entry >>

\* _get_user: users.delete(user) of the stale account
DeleteStale(u) ==
  /\ At(u, "delete_stale")
  /\ \E res \in DeleteResults(frame[u].stale) :
       /\ KeystoneDelete(frame[u].stale, res)
       /\ Advance(u, Call("users.delete", <<frame[u].stale>>, res, None),
                  self[u],
                  Goto(u, IF res = Ok THEN "create_retry" ELSE "dead"),
                  IF res = Ok THEN InProgress ELSE res)
  /\ UNCHANGED << role_bindings, roles, scale_cfg, entry >>

\* variant: a conflict met by the retry starts the repair again
CreateRetry_RepairAgain(u) ==
  /\ At(u, "create_retry")
  /\ \E res \in CreateResults(self[u].user_name) :
       /\ KeystoneCreate(self[u].user_name, res)
       /\ Advance(u, CreateCall(self[u].user_name, res),
                  IF res = Ok
                    THEN [self[u] EXCEPT !.admin_user = AccountId(nextId)]
                    ELSE self[u],
                  Goto(u, IF res = Ok THEN "roles_list"
                          ELSE IF IsStaleConflict(res) THEN "users_list"
                          ELSE "dead"),
                  IF res = Ok \/ IsStaleConflict(res) THEN InProgress ELSE res)
  /\ UNCHANGED << role_bindings, roles, scale_cfg, entry >>

\* _get_user: the second self._create_user(), whose error is not handled
CreateRetry(u) ==
  /\ At(u, "create_retry")
  /\ \E res \in CreateResults(self[u].user_name) :
       /\ KeystoneCreate(self[u].user_name, res)
       /\ Advance(u, CreateCall(self[u].user_name, res),
                  IF res = Ok
                    THEN [self[u] EXCEPT !.admin_user = AccountId(nextId)]
                    ELSE self[u],
                  Goto(u, IF res = Ok THEN "roles_list" ELSE "dead"),
                  IF res = Ok THEN InProgress ELSE res)
  /\ UNCHANGED << role_bindings, roles, scale_cfg, entry >>

\* __init__: roles.list() and the choice of current_role
ListRoles(u) ==
  /\ At(u, "roles_list")
  /\ \E res \in {Ok, ServiceError} :
       Advance(u, Call("roles.list", << >>, res, None), self[u],
               IF res = Ok
                 THEN [frame[u] EXCEPT !.pc = "add_user_role",
                         !.current_role = FindRole(roles, frame[u].user_role)]
                 ELSE Goto(u, "dead"),
               IF res = Ok THEN InProgress ELSE res)
  /\ UNCHANGED << accounts, nextId, role_bindings, roles, scale_cfg, entry >>

\* __init__: roles.add_user_role(...) and self.user_id = self.admin_user.id
AddUserRole(u) ==
  /\ At(u, "add_user_role")
  /\ \E res \in AddRoleResults(self[u].admin_user, frame[u].current_role) :
       LET binding == << self[u].admin_user, frame[u].current_role,
                         self[u].tenant.tenant_id >>
       IN  /\ role_bindings' = IF res = Ok THEN role_bindings \cup {binding}
                               ELSE role_bindings
           /\ Advance(u, Call("roles.add_user_role", binding, res, None),
                      IF res = Ok
                        THEN [self[u] EXCEPT !.user_id = self[u].admin_user]
                        ELSE self[u],
                      IF res = Ok THEN Returned(u) ELSE Goto(u, "dead"),
                      res)
  /\ UNCHANGED << accounts, nextId, roles, scale_cfg, entry >>

\* ------------------------------------------------------- create_resources
\* variant: the keypair is created whatever the configuration
WantsKeyPair_Always(cfg) ==
  TRUE

\* if config_scale.public_key_file:
WantsKeyPair(cfg) ==
  cfg.public_key_file # None /\ cfg.public_key_file # ""

\* variant: the redis_server key is not looked at
NeedsExternalNetwork_OnlyFloating(cfg) ==
  cfg.use_floatingip

\* if config_scale['use_floatingip'] or 'redis_server' in config_scale:
NeedsExternalNetwork(cfg) ==
  cfg.use_floatingip \/ "redis_server" \in DOMAIN cfg

\* self.key_name = self.user_name + '-K'
KeyName(user_name) ==
  user_name \o "-K"

\* variant: routers are numbered from 1
RouterName_OneBased(user_name, router_count) ==
  user_name \o "-R" \o ToString(router_count + 1)

\* router_name = self.user_name + "-R" + str(router_count)
RouterName(user_name, router_count) ==
  user_name \o "-R" \o ToString(router_count)

\* variant: the loop runs one iteration too many
LoopPc_Inclusive(cfg, router_count) ==
  IF router_count <= cfg.routers_per_user THEN "create_router" ELSE "return"

\* for router_count in range(config_scale['routers_per_user']): the position
\* of the next call once router_count routers have been completed
LoopPc(cfg, router_count) ==
  IF router_count < cfg.routers_per_user THEN "create_router" ELSE "return"

\* position of the call that follows the keypair block
AfterKeyPair(cfg) ==
  IF NeedsExternalNetwork(cfg) THEN "find_external_network" ELSE LoopPc(cfg, 0)

\* u moves to position pc of its method with fields s and frame f; position
\* "return" ends the method normally
Continue(u, c, s, f, pc) ==
  IF pc = "return"
    THEN Advance(u, c, s, Returned(u), Ok)
    ELSE Advance(u, c, s, [f EXCEPT !.pc = pc], InProgress)

\* u's method raises exc to its caller, the fields staying as s
Raise(u, c, s, exc) ==
  Advance(u, c, s, Returned(u), exc)

\* base_network.Router(self): a router object before create_router
NewRouter ==
  [name |-> None, external_network |-> None, state |-> "new",
   networks |-> << >>, instances |-> << >>]

\* what create_network_resources leaves in a router of that name
RouterNetworks(name) ==
  << name \o "-N0", name \o "-N1" >>

RouterInstances(name) ==
  << name \o "-N0-I0", name \o "-N1-I0" >>

\* create_resources() up to its first call into a service: the two clients
\* and, if configured, the KeyPair object and its name
CreateResources(u) ==
  /\ At(u, "ready")
  /\ frame[u].ops < MaxOps
  /\ LET me == self[u]
         creden == << me.user_name, me.user_name, me.tenant.auth_url,
                      me.tenant.tenant_name >>
         creden_nova == << me.user_name, me.user_name, me.tenant.auth_url,
                           me.tenant.tenant_name, "2" >>
         s1 == [me EXCEPT !.neutron_client = creden, !.nova_client = creden_nova]
         s2 == IF WantsKeyPair(scale_cfg)
                 THEN [s1 EXCEPT !.key_pair = "KeyPair" \o ToString(frame[u].ops),
                                 !.key_name = KeyName(me.user_name)]
                 ELSE s1
         f  == [frame[u] EXCEPT !.method = "create_resources", !.ops = @ + 1,
                                !.ret = None]
         pc == IF WantsKeyPair(scale_cfg) THEN "add_public_key"
               ELSE AfterKeyPair(scale_cfg)
     IN  /\ calls' = [calls EXCEPT ![u] = << >>]
         /\ entry' = [entry EXCEPT ![u] = me]
         /\ self' = [self EXCEPT ![u] = s2]
         /\ frame' = [frame EXCEPT ![u] =
                        IF pc = "return"
                          THEN [BlankFrame EXCEPT !.pc = "ready",
                                  !.method = f.method, !.ops = f.ops]
                          ELSE [f EXCEPT !.pc = pc]]
         /\ outcome' = [outcome EXCEPT ![u] =
                          IF pc = "return" THEN Ok ELSE InProgress]
  /\ UNCHANGED << accounts, nextId, role_bindings, roles, scale_cfg >>

\* self.key_pair.add_public_key(self.key_name, config_scale.public_key_file)
AddPublicKey(u) ==
  /\ At(u, "add_public_key")
  /\ \E res \in {Ok, ServiceError} :
       LET c == Call("add_public_key",
                     << self[u].key_name, scale_cfg.public_key_file >>, res, None)
       IN  IF res = Ok
             THEN Continue(u, c, self[u], frame[u], AfterKeyPair(scale_cfg))
             ELSE Raise(u, c, self[u], res)
  /\ UNCHANGED << accounts, nextId, role_bindings, roles, scale_cfg, entry >>

\* external_network = base_network.find_external_network(self.neutron_client)
FindExternalNetwork(u) ==
  /\ At(u, "find_external_network")
  /\ \/ \E net \in ExternalNetworks :
          Continue(u, Call("find_external_network", << >>, Ok, net), self[u],
                   [frame[u] EXCEPT !.external_network = net],
                   LoopPc(scale_cfg, 0))
     \/ Raise(u, Call("find_external_network", << >>, ServiceError, None),
              self[u], ServiceError)
  /\ UNCHANGED << accounts, nextId, role_bindings, roles, scale_cfg, entry >>

\* variant: the router is appended only after create_router has returned
CreateRouter_AppendAfter(u) ==
  /\ At(u, "create_router")
  /\ \E res \in {Ok, ServiceError} :
       LET router_name == RouterName(self[u].user_name, frame[u].router_count)
           made == [NewRouter EXCEPT !.name = router_name,
                      !.external_network = frame[u].external_network,
                      !.state = "created"]
           c == Call("create_router",
                     << router_name, frame[u].external_network >>, res, None)
       IN  IF res = Ok
             THEN Continue(u, c, [self[u] EXCEPT !.router_list = Append(@, made)],
                           frame[u], "create_network_resources")
             ELSE Raise(u, c, self[u], res)
  /\ UNCHANGED << accounts, nextId, role_bindings, roles, scale_cfg, entry >>

\* loop body, first half: Router(self), router_list.append(...),
\* router_instance.create_router(router_name, external_network)
CreateRouter(u) ==
  /\ At(u, "create_router")
  /\ \E res \in {Ok, ServiceError} :
       LET router_name == RouterName(self[u].user_name, frame[u].router_count)
           made == [NewRouter EXCEPT
                      !.name = IF res = Ok THEN router_name ELSE @,
                      !.external_network =
                         IF res = Ok THEN frame[u].external_network ELSE @,
                      !.state = IF res = Ok THEN "created" ELSE @]
           s == [self[u] EXCEPT !.router_list = Append(@, made)]
           c == Call("create_router",
                     << router_name, frame[u].external_network >>, res, None)
       IN  IF res = Ok
             THEN Continue(u, c, s, frame[u], "create_network_resources")
             ELSE Raise(u, c, s, res)
  /\ UNCHANGED << accounts, nextId, role_bindings, roles, scale_cfg, entry >>

\* variant: a failure removes the routers this call had appended
CreateNetworkResources_Rollback(u) ==
  /\ At(u, "create_network_resources")
  /\ \E res \in {Ok, ServiceError} :
       LET last == Len(self[u].router_list)
           r == self[u].router_list[last]
           s == [self[u] EXCEPT !.router_list[last] =
                   IF res = Ok
                     THEN [r EXCEPT !.state = "populated",
                                    !.networks = RouterNetworks(r.name),
                                    !.instances = RouterInstances(r.name)]
                     ELSE r]
           c == Call("create_network_resources",
                     << self[u].router_list[last].name >>, res, None)
       IN  IF res = Ok
             THEN Continue(u, c, s,
                           [frame[u] EXCEPT !.router_count = @ + 1],
                           LoopPc(scale_cfg, frame[u].router_count + 1))
             ELSE Raise(u, c, [s EXCEPT !.router_list = entry[u].router_list],
                        res)
  /\ UNCHANGED << accounts, nextId, role_bindings, roles, scale_cfg, entry >>

\* loop body, second half: router_instance.create_network_resources(config_scale)
CreateNetworkResources(u) ==
  /\ At(u, "create_network_resources")
  /\ \E res \in {Ok, ServiceError} :
       LET last == Len(self[u].router_list)
           r == self[u].router_list[last]
           s == [self[u] EXCEPT !.router_list[last] =
                   IF res = Ok
                     THEN [r EXCEPT !.state = "populated",
                                    !.networks = RouterNetworks(r.name),
                                    !.instances = RouterInstances(r.name)]
                     ELSE r]
           c == Call("create_network_resources",
                     << self[u].router_list[last].name >>, res, None)
       IN  IF res = Ok
             THEN Continue(u, c, s,
                           [frame[u] EXCEPT !.router_count = @ + 1],
                           LoopPc(scale_cfg, frame[u].router_count + 1))
             ELSE Raise(u, c, s, res)
  /\ UNCHANGED << accounts, nextId, role_bindings, roles, scale_cfg, entry >>

\* ------------------------------------------------------- delete_resources
\* variant: the truth test of self.key_pair is missing
HasKeyPair_Always(me) ==
  TRUE

\* if self.key_pair:
HasKeyPair(me) ==
  me.key_pair # None

\* for router in self.router_list: the position of the next call once the
\* routers before index router (1-based) have been deleted
DeleteLoopPc(router_list, router) ==
  IF router <= Len(router_list) THEN "delete_router" ELSE "users_delete"

\* delete_resources() up to its first call: if self.key_pair:
DeleteResources(u) ==
  /\ At(u, "ready")
  /\ frame[u].ops < MaxOps
  /\ calls' = [calls EXCEPT ![u] = << >>]
  /\ entry' = [entry EXCEPT ![u] = self[u]]
  /\ frame' = [frame EXCEPT ![u] =
                 [@ EXCEPT !.method = "delete_resources", !.ops = @ + 1,
                           !.router = 1, !.ret = None,
                           !.pc = IF HasKeyPair(self[u])
                                    THEN "remove_public_key"
                                    ELSE DeleteLoopPc(self[u].router_list, 1)]]
  /\ outcome' = [outcome EXCEPT ![u] = InProgress]
  /\ UNCHANGED << accounts, nextId, role_bindings, roles, scale_cfg, self >>

\* self.key_pair.remove_public_key()
RemovePublicKey(u) ==
  /\ At(u, "remove_public_key")
  /\ \E res \in {Ok, ServiceError} :
       LET c == Call("remove_public_key", << self[u].key_pair >>, res, None)
       IN  IF res = Ok
             THEN Continue(u, c, self[u], frame[u],
                           DeleteLoopPc(self[u].router_list, 1))
             ELSE Raise(u, c, self[u], res)
  /\ UNCHANGED << accounts, nextId, role_bindings, roles, scale_cfg, entry >>

\* variant: an error of delete_router is swallowed and the loop goes on
DeleteRouter_Swallow(u) ==
  /\ At(u, "delete_router")
  /\ \E res \in {Ok, ServiceError} :
       LET k == frame[u].router
           s == [self[u] EXCEPT !.router_list[k].state =
                                   IF res = Ok THEN "deleted" ELSE @]
           c == Call("delete_router", << ToString(k), self[u].router_list[k].name >>,
                     res, None)
       IN  Continue(u, c, s, [frame[u] EXCEPT !.router = k + 1],
                    DeleteLoopPc(self[u].router_list, k + 1))
  /\ UNCHANGED << accounts, nextId, role_bindings, roles, scale_cfg, entry >>

\* router.delete_router() for the router at index frame[u].router
DeleteRouter(u) ==
  /\ At(u, "delete_router")
  /\ \E res \in {Ok, ServiceError} :
       LET k == frame[u].router
           s == [self[u] EXCEPT !.router_list[k].state =
                                   IF res = Ok THEN "deleted" ELSE @]
           c == Call("delete_router", << ToString(k), self[u].router_list[k].name >>,
                     res, None)
       IN  IF res = Ok
             THEN Continue(u, c, s, [frame[u] EXCEPT !.router = k + 1],
                           DeleteLoopPc(self[u].router_list, k + 1))
             ELSE Raise(u, c, s, res)
  /\ UNCHANGED << accounts, nextId, role_bindings, roles, scale_cfg, entry >>

\* variant: the stored user id is cleared once the account is deleted
DeleteUser_ClearId(u) ==
  /\ At(u, "users_delete")
  /\ \E res \in DeleteResults(self[u].user_id) :
       /\ KeystoneDelete(self[u].user_id, res)
       /\ Advance(u, Call("users.delete", << self[u].user_id >>, res, None),
                  IF res = Ok THEN [self[u] EXCEPT !.user_id = None] ELSE self[u],
                  Returned(u), res)
  /\ UNCHANGED << role_bindings, roles, scale_cfg, entry >>

\* self.tenant.kloud.keystone.users.delete(self.user_id)
DeleteUser(u) ==
  /\ At(u, "users_delete")
  /\ \E res \in DeleteResults(self[u].user_id) :
       /\ KeystoneDelete(self[u].user_id, res)
       /\ Advance(u, Call("users.delete", << self[u].user_id >>, res, None),
                  self[u], Returned(u), res)
  /\ UNCHANGED << role_bindings, roles, scale_cfg, entry >>

\* ---------------------------------------------------------- the accessors
\* Router.get_first_network(): the first network of a router, if any
RouterGetFirstNetwork(router) ==
  IF router.networks = << >> THEN None ELSE router.networks[1]

\* Router.get_all_instances(): the instances of a router
RouterGetAllInstances(router) ==
  router.instances

\* frame of u when an accessor has returned ret
Answered(u, method, ret) ==
  [BlankFrame EXCEPT !.pc = "ready", !.method = method,
                     !.ops = frame[u].ops, !.ret = ret]

\* variant: the router at the end of the list is asked
GetFirstNetwork_LastRouter(u) ==
  /\ At(u, "ready")
  /\ entry' = [entry EXCEPT ![u] = self[u]]
  /\ IF self[u].router_list # << >>
       THEN LET n == Len(self[u].router_list)
                router == self[u].router_list[n]
                net == RouterGetFirstNetwork(router)
            IN  /\ calls' = [calls EXCEPT ![u] =
                     << Call("Router.get_first_network",
                             << ToString(n), router.name >>, Ok, net) >>]
                /\ frame' = [frame EXCEPT ![u] =
                               Answered(u, "get_first_network", net)]
       ELSE /\ calls' = [calls EXCEPT ![u] = << >>]
            /\ frame' = [frame EXCEPT ![u] = Answered(u, "get_first_network", None)]
  /\ outcome' = [outcome EXCEPT ![u] = Ok]
  /\ UNCHANGED << accounts, nextId, role_bindings, roles, scale_cfg, self >>

\* get_first_network(): if self.router_list: return
\* self.router_list[0].get_first_network(); return None
GetFirstNetwork(u) ==
  /\ At(u, "ready")
  /\ entry' = [entry EXCEPT ![u] = self[u]]
  /\ IF self[u].router_list # << >>
       THEN LET router == self[u].router_list[1]
                net == RouterGetFirstNetwork(router)
            IN  /\ calls' = [calls EXCEPT ![u] =
                     << Call("Router.get_first_network",
                             << "1", router.name >>, Ok, net) >>]
                /\ frame' = [frame EXCEPT ![u] =
                               Answered(u, "get_first_network", net)]
       ELSE /\ calls' = [calls EXCEPT ![u] = << >>]
            /\ frame' = [frame EXCEPT ![u] = Answered(u, "get_first_network", None)]
  /\ outcome' = [outcome EXCEPT ![u] = Ok]
  /\ UNCHANGED << accounts, nextId, role_bindings, roles, scale_cfg, self >>

\* variant: the result is assigned instead of extended, the last router wins
RECURSIVE AllInstances_Assign(_, _)
AllInstances_Assign(router_list, n) ==
  IF n = 0 THEN << >>
  ELSE RouterGetAllInstances(router_list[n])

\* all_instances = []; for router in self.router_list:
\* all_instances.extend(router.get_all_instances()), for the first n routers
RECURSIVE AllInstances(_, _)
AllInstances(router_list, n) ==
  IF n = 0 THEN << >>
  ELSE AllInstances(router_list, n - 1)
         \o RouterGetAllInstances(router_list[n])

\* get_all_instances(): every router is asked in list order.  The getters
\* of Router read lists the Router keeps in memory; they do not raise.
GetAllInstances(u) ==
  /\ At(u, "ready")
  /\ entry' = [entry EXCEPT ![u] = self[u]]
  /\ LET n == Len(self[u].router_list)
         asked == [k \in 1..n |->
                     Call("Router.get_all_instances",
                          << ToString(k), self[u].router_list[k].name >>, Ok,
                          RouterGetAllInstances(self[u].router_list[k]))]
     IN  /\ calls' = [calls EXCEPT ![u] = asked]
         /\ frame' = [frame EXCEPT ![u] =
                        Answered(u, "get_all_instances",
                                 AllInstances(self[u].router_list, n))]
  /\ outcome' = [outcome EXCEPT ![u] = Ok]
  /\ UNCHANGED << accounts, nextId, role_bindings, roles, scale_cfg, self >>

\* ------------------------------------------------------------ environment
\* some other client of the identity service removes a leftover account of
\* a past run (one that no User of this run has created)
ExternalDelete ==
  /\ \E a \in accounts :
       /\ \A u \in Users : a.id # self[u].admin_user
       /\ accounts' = accounts \ {a}
  /\ UNCHANGED << nextId, role_bindings, roles, scale_cfg,
                  self, frame, calls, outcome, entry >>

Next ==
  \/ \E u \in Users : Construct(u)
  \/ \E u \in Users : ListUsersStep(u)
  \/ \E u \in Users : DeleteStale(u)
  \/ \E u \in Users : CreateRetry(u)
  \/ \E u \in Users : ListRoles(u)
  \/ \E u \in Users : AddUserRole(u)
  \/ \E u \in Users : CreateResources(u)
  \/ \E u \in Users : AddPublicKey(u)
  \/ \E u \in Users : FindExternalNetwork(u)
  \/ \E u \in Users : CreateRouter(u)
  \/ \E u \in Users : CreateNetworkResources(u)
  \/ \E u \in Users : DeleteResources(u)
  \/ \E u \in Users : RemovePublicKey(u)
  \/ \E u \in Users : DeleteRouter(u)
  \/ \E u \in Users : DeleteUser(u)
  \/ \E u \in Users : GetFirstNetwork(u)
  \/ \E u \in Users : GetAllInstances(u)
  \/ ExternalDelete

Spec ==
  Init /\ [][Next]_vars

\* ------------------------------------------------- two Users side by side
\* the configuration of the concurrent runs: the calls of create_resources
\* and of the Router objects reach no state shared between Users, so a
\* single small configuration is run
ConcCfgs ==
  { c \in ScaleCfgs : /\ c.public_key_file = None
                      /\ ~ c.use_floatingip
                      /\ "redis_server" \notin DOMAIN c
                      /\ c.routers_per_user = 1 }

\* two constructors are started against one identity service
InitRace ==
  /\ InitShared
  /\ scale_cfg \in ConcCfgs
  /\ frame = [u \in Users |-> [BlankFrame EXCEPT !.pc = "new"]]

\* the calls of the two constructors interleave in any order
NextRace ==
  \/ \E u \in Users : Construct(u)
  \/ \E u \in Users : ListUsersStep(u)
  \/ \E u \in Users : DeleteStale(u)
  \/ \E u \in Users : CreateRetry(u)
  \/ \E u \in Users : ListRoles(u)
  \/ \E u \in Users : AddUserRole(u)

SpecRace ==
  InitRace /\ [][NextRace]_vars

\* two Users are constructed, provisioned and torn down, their calls
\* interleaving in any order
NextConc ==
  \/ \E u \in Users : Construct(u)
  \/ \E u \in Users : ListUsersStep(u)
  \/ \E u \in Users : DeleteStale(u)
  \/ \E u \in Users : CreateRetry(u)
  \/ \E u \in Users : ListRoles(u)
  \/ \E u \in Users : AddUserRole(u)
  \/ \E u \in Users : CreateResources(u)
  \/ \E u \in Users : CreateRouter(u)
  \/ \E u \in Users : CreateNetworkResources(u)
  \/ \E u \in Users : DeleteResources(u)
  \/ \E u \in Users : DeleteRouter(u)
  \/ \E u \in Users : DeleteUser(u)

SpecConc ==
  InitRace /\ [][NextConc]_vars

\* =================================================================== claims
\* names of the calls of a log, in the order issued
Ops(log) ==
  [i \in 1..Len(log) |-> log[i].op]

\* number of calls of a log to operation op
Count(log, op) ==
  Cardinality({ i \in 1..Len(log) : log[i].op = op })

IsPrefix(a, b) ==
  Len(a) <= Len(b) /\ \A i \in 1..Len(a) : a[i] = b[i]

\* u is inside its constructor or the constructor was its last method
InConstructor(u) ==
  frame[u].method = "__init__" /\ Len(calls[u]) >= 1

\* the constructor of u has returned normally and nothing was called since
Constructed(u) ==
  frame[u].method = "__init__" /\ frame[u].pc = "ready"

\* a listing holds an account of that name
Listed(listing, name) ==
  \E i \in 1..Len(listing) : listing[i].name = name

\* C1: constructing a User whose name does not exist in the identity service
\* issues exactly one users.create and one roles.add_user_role, no users.list
\* and no users.delete, and user_id is the id that create returned.
C1_FreshNameSingleCreate ==
  \A u \in Users :
    (InConstructor(u) /\ calls[u][1].exc = Ok) =>
      /\ Count(calls[u], "users.create") = 1
      /\ Count(calls[u], "users.list") = 0
      /\ Count(calls[u], "users.delete") = 0
      /\ Count(calls[u], "roles.add_user_role") <= 1
      /\ Constructed(u) =>
           /\ Ops(calls[u]) = << "users.create", "roles.list", "roles.add_user_role" >>
           /\ self[u].user_id = calls[u][1].ret
           /\ self[u].user_id # None

C1_Witness ==
  \E u \in Users :
    /\ Constructed(u)
    /\ calls[u][1].exc = Ok
    /\ Count(calls[u], "roles.add_user_role") = 1
    /\ self[u].user_id = calls[u][1].ret

\* the constructor of u met a 409 conflict and the listing holds its name
RepairCase(u) ==
  /\ InConstructor(u)
  /\ Len(calls[u]) >= 2
  /\ calls[u][1].exc = Duplicate
  /\ calls[u][2].exc = Ok
  /\ Listed(calls[u][2].ret, self[u].user_name)

\* C2: on a 409 conflict with the name present in the listing there is exactly
\* one delete-then-recreate cycle: the stale account is deleted before the
\* retry create, the retry is issued once, and the role binding and user_id
\* are those of the account the retry returned, not of the stale one.
C2_OneDeleteThenRecreate ==
  \A u \in Users :
    RepairCase(u) =>
      /\ IsPrefix(Ops(calls[u]),
                  << "users.create", "users.list", "users.delete",
                     "users.create", "roles.list", "roles.add_user_role" >>)
      /\ Len(calls[u]) >= 3 =>
           /\ \E i \in 1..Len(calls[u][2].ret) :
                /\ calls[u][2].ret[i].name = self[u].user_name
                /\ calls[u][3].args = << calls[u][2].ret[i].id >>
      /\ Len(calls[u]) >= 4 => calls[u][3].exc = Ok
      /\ frame[u].pc = "create_retry" =>
           ~ \E a \in accounts : a.id = calls[u][3].args[1]
      /\ Constructed(u) =>
           /\ Len(calls[u]) = 6
           /\ calls[u][4].exc = Ok
           /\ self[u].user_id = calls[u][4].ret
           /\ self[u].user_id # calls[u][3].args[1]
           /\ calls[u][6].args[1] = calls[u][4].ret
           /\ \E b \in role_bindings : b[1] = self[u].user_id

C2_Witness ==
  \E u \in Users :
    /\ RepairCase(u)
    /\ Constructed(u)
    /\ Count(calls[u], "users.delete") = 1
    /\ Count(calls[u], "users.create") = 2

\* the first users.create of u raised something other than a 409 Conflict
NotRepairable(u) ==
  /\ InConstructor(u)
  /\ calls[u][1].exc # Ok
  /\ ~ (calls[u][1].exc.type = "Conflict" /\ calls[u][1].exc.http_status = 409)

\* C9: if the first users.create fails with anything other than a 409
\* Conflict, that error reaches the caller of the constructor and no
\* users.list, users.delete, second create or add_user_role is issued.
C9_OtherCreateErrorPropagates ==
  \A u \in Users :
    NotRepairable(u) =>
      /\ Len(calls[u]) = 1
      /\ frame[u].pc = "dead"
      /\ outcome[u] = calls[u][1].exc

C9_Witness ==
  \E u \in Users :
    /\ NotRepairable(u)
    /\ calls[u][1].exc.type = "Conflict"
    /\ frame[u].pc = "dead"

\* the constructor of u met a 409 conflict and the listing lacks its name
StaleMissing(u) ==
  /\ InConstructor(u)
  /\ Len(calls[u]) >= 2
  /\ calls[u][1].exc = Duplicate
  /\ calls[u][2].exc = Ok
  /\ ~ Listed(calls[u][2].ret, self[u].user_name)

\* C10: on a 409 conflict with no account of that name in the listing the
\* constructor fails with an error carrying the user name, and no
\* users.delete, second users.create or add_user_role is issued.
C10_StaleNotFoundFails ==
  \A u \in Users :
    StaleMissing(u) =>
      /\ Ops(calls[u]) = << "users.create", "users.list" >>
      /\ frame[u].pc = "dead"
      /\ outcome[u].type = "Exception"
      /\ outcome[u].msg = "Cannot find stale user:" \o self[u].user_name

C10_Witness ==
  \E u \in Users :
    /\ StaleMissing(u)
    /\ Len(calls[u][2].ret) >= 1
    /\ outcome[u].type = "Exception"

\* the last or current method of u is create_resources
InCreate(u) ==
  frame[u].method = "create_resources"

\* the method of u has returned normally
ReturnedOk(u) ==
  frame[u].pc = "ready" /\ outcome[u] = Ok

\* the create_router and create_network_resources calls of a log, in order
RouterCalls(log) ==
  LET IsRouterCall(c) == c.op \in {"create_router", "create_network_resources"}
  IN  SelectSeq(log, IsRouterCall)

\* C3: create_resources on a freshly constructed User with routers_per_user
\* = N, every call succeeding, leaves exactly N routers named <user_name>-R0
\* .. <user_name>-R{N-1} in list order, and the routers are created one
\* after the other: create_router and create_network_resources of index i
\* complete before create_router of index i+1 is issued.
C3_RoutersNamedInOrder ==
  \A u \in Users :
    (InCreate(u) /\ entry[u].router_list = << >>) =>
      LET rc == RouterCalls(calls[u])
      IN  /\ \A j \in 1..Len(rc) :
                LET i == (j - 1) \div 2
                IN  /\ rc[j].op = IF j % 2 = 1 THEN "create_router"
                                  ELSE "create_network_resources"
                    /\ rc[j].args[1] = self[u].user_name \o "-R" \o ToString(i)
                    /\ j < Len(rc) => rc[j].exc = Ok
          /\ ReturnedOk(u) =>
                /\ Len(rc) = 2 * scale_cfg.routers_per_user
                /\ Len(self[u].router_list) = scale_cfg.routers_per_user
                /\ \A k \in 1..Len(self[u].router_list) :
                     /\ self[u].router_list[k].name =
                          self[u].user_name \o "-R" \o ToString(k - 1)
                     /\ self[u].router_list[k].state = "populated"

C3_Witness ==
  \E u \in Users :
    /\ InCreate(u)
    /\ ReturnedOk(u)
    /\ entry[u].router_list = << >>
    /\ Len(self[u].router_list) = 2
    /\ self[u].router_list[2].name = self[u].user_name \o "-R1"

\* C4 as stated: after any successful create_resources the length of
\* router_list equals routers_per_user, whatever preceded the call.
C4_LengthEqualsConfigured ==
  \A u \in Users :
    (InCreate(u) /\ ReturnedOk(u)) =>
      Len(self[u].router_list) = scale_cfg.routers_per_user

\* C4 (amended): a successful create_resources appends routers_per_user
\* routers to the router_list it found; the length equals routers_per_user
\* exactly when the list was empty when the call began.
C4_LengthGrowsByConfigured ==
  \A u \in Users :
    (InCreate(u) /\ ReturnedOk(u)) =>
      /\ Len(self[u].router_list) =
           Len(entry[u].router_list) + scale_cfg.routers_per_user
      /\ IsPrefix(entry[u].router_list, self[u].router_list)

C4_Witness ==
  \E u \in Users :
    /\ InCreate(u)
    /\ ReturnedOk(u)
    /\ scale_cfg.routers_per_user >= 1
    /\ Len(entry[u].router_list) >= 1
    /\ Len(self[u].router_list) > scale_cfg.routers_per_user

\* the last or current method of u is delete_resources
InDelete(u) ==
  frame[u].method = "delete_resources"

\* operation and arguments of the calls of a log
Issued(log) ==
  [i \in 1..Len(log) |-> << log[i].op, log[i].args >>]

\* the teardown calls delete_resources owes for the fields me of a User
Teardown(me) ==
  (IF me.key_pair # None
     THEN << << "remove_public_key", << me.key_pair >> >> >>
     ELSE << >>)
  \o [k \in 1..Len(me.router_list) |->
        << "delete_router", << ToString(k), me.router_list[k].name >> >>]
  \o << << "users.delete", << me.user_id >> >> >>

\* C5: delete_resources issues remove_public_key (only if a keypair exists),
\* then delete_router on every router in router_list order, then
\* users.delete(user_id); the first failing call ends the method with that
\* error and none of the later calls is issued, so the account is not
\* deleted when a keypair or router teardown fails.
C5_TeardownOrderAndAbort ==
  \A u \in Users :
    InDelete(u) =>
      /\ IsPrefix(Issued(calls[u]), Teardown(entry[u]))
      /\ \A i \in 1..Len(calls[u]) :
           calls[u][i].exc # Ok =>
             /\ i = Len(calls[u])
             /\ frame[u].pc = "ready"
             /\ outcome[u] = calls[u][i].exc
             /\ calls[u][i].op # "users.delete" =>
                  Count(calls[u], "users.delete") = 0
      /\ ReturnedOk(u) => Issued(calls[u]) = Teardown(entry[u])
      /\ frame[u].pc # "ready" => outcome[u] = InProgress

C5_Witness ==
  \E u \in Users :
    /\ InDelete(u)
    /\ frame[u].pc = "ready"
    /\ Ops(calls[u]) = << "remove_public_key", "delete_router", "delete_router" >>
    /\ calls[u][3].exc # Ok
    /\ outcome[u] = calls[u][3].exc

\* C6: delete_resources on a User with no keypair and an empty router list
\* issues exactly one call, users.delete(user_id), and ends with the
\* result of that call: no remove_public_key, no delete_router.
C6_BareUserSingleDelete ==
  \A u \in Users :
    (InDelete(u) /\ entry[u].key_pair = None /\ entry[u].router_list = << >>) =>
      IF frame[u].pc = "ready"
        THEN /\ Issued(calls[u]) = << << "users.delete", << entry[u].user_id >> >> >>
             /\ outcome[u] = calls[u][1].exc
        ELSE /\ calls[u] = << >>
             /\ frame[u].pc = "users_delete"

C6_Witness ==
  \E u \in Users :
    /\ InDelete(u)
    /\ entry[u].key_pair = None
    /\ entry[u].router_list = << >>
    /\ ReturnedOk(u)
    /\ Len(calls[u]) = 1
    /\ frame[u].ops = 1

\* positions of the calls of a log to operation op
Positions(log, op) ==
  { i \in 1..Len(log) : log[i].op = op }

\* C7: create_resources looks the external network up if and only if
\* use_floatingip is set or a redis_server is configured; the lookup happens
\* once, before any router is created, and its result is passed to every
\* create_router; without a lookup every create_router receives None.
C7_ExternalLookupIffNeeded ==
  \A u \in Users :
    InCreate(u) =>
      LET needed == scale_cfg.use_floatingip \/ "redis_server" \in DOMAIN scale_cfg
          L == Positions(calls[u], "find_external_network")
          R == Positions(calls[u], "create_router")
      IN  /\ Cardinality(L) <= 1
          /\ L # {} => needed
          /\ (needed /\ (R # {} \/ ReturnedOk(u))) => L # {}
          /\ \A r \in R :
               IF needed
                 THEN \E l \in L : /\ l < r
                                   /\ calls[u][l].exc = Ok
                                   /\ calls[u][r].args[2] = calls[u][l].ret
                 ELSE calls[u][r].args[2] = None

C7_Witness ==
  \E u \in Users :
    /\ InCreate(u)
    /\ ReturnedOk(u)
    /\ ~ scale_cfg.use_floatingip
    /\ "redis_server" \in DOMAIN scale_cfg
    /\ Cardinality(Positions(calls[u], "find_external_network")) = 1
    /\ Cardinality(Positions(calls[u], "create_router")) = 2
    /\ \A r \in Positions(calls[u], "create_router") : calls[u][r].args[2] = "ext-net"

\* C8: create_resources creates a keypair and registers it under the name
\* <user_name>-K if and only if a public_key_file is configured; without one
\* key_pair stays None and no add_public_key call is issued.
C8_KeyPairIffConfigured ==
  \A u \in Users :
    IF scale_cfg.public_key_file = None
      THEN /\ self[u].key_pair = None
           /\ self[u].key_name = None
           /\ InCreate(u) => Count(calls[u], "add_public_key") = 0
      ELSE InCreate(u) =>
             /\ self[u].key_pair # None
             /\ self[u].key_name = self[u].user_name \o "-K"
             /\ IF frame[u].pc = "add_public_key"
                  THEN calls[u] = << >>
                  ELSE /\ Positions(calls[u], "add_public_key") = {1}
                       /\ calls[u][1].args =
                            << self[u].user_name \o "-K", scale_cfg.public_key_file >>

C8_Witness ==
  \E u \in Users :
    /\ InCreate(u)
    /\ ReturnedOk(u)
    /\ scale_cfg.public_key_file # None
    /\ self[u].key_pair # None
    /\ calls[u][1].op = "add_public_key"
    /\ calls[u][1].args[1] = "alice-K"

\* create_resources of u has raised in create_router or
\* create_network_resources
FailedAtRouter(u) ==
  /\ InCreate(u)
  /\ frame[u].pc = "ready"
  /\ outcome[u] # Ok
  /\ calls[u] # << >>
  /\ calls[u][Len(calls[u])].op \in {"create_router", "create_network_resources"}

\* the router at the end of a router list is one whose creation failed
EndsPartlyCreated(router_list) ==
  /\ router_list # << >>
  /\ router_list[Len(router_list)].state \in {"new", "created"}

\* C11: when create_resources fails while creating the router of index k,
\* nothing is rolled back: the routers 0..k-1 stay in router_list in order,
\* no router of a higher index is created, and a later delete_resources
\* calls delete_router on each of them.
C11_NoRollbackOnRouterFailure ==
  \A u \in Users :
    /\ FailedAtRouter(u) =>
         LET k == (Len(RouterCalls(calls[u])) - 1) \div 2
             base == Len(entry[u].router_list)
         IN  /\ IsPrefix(entry[u].router_list, self[u].router_list)
             /\ Len(self[u].router_list) >= base + k
             /\ \A i \in 1..k :
                  /\ self[u].router_list[base + i].name =
                       self[u].user_name \o "-R" \o ToString(i - 1)
                  /\ self[u].router_list[base + i].state = "populated"
             /\ Count(calls[u], "create_router") = k + 1
    /\ (InDelete(u) /\ EndsPartlyCreated(entry[u].router_list)
          /\ frame[u].pc \in {"users_delete", "ready"}
          /\ \A i \in 1..Len(calls[u]) :
               calls[u][i].op = "users.delete" \/ calls[u][i].exc = Ok) =>
         \A j \in 1..Len(entry[u].router_list) :
           \E i \in 1..Len(calls[u]) :
             /\ calls[u][i].op = "delete_router"
             /\ calls[u][i].args = << ToString(j), entry[u].router_list[j].name >>

C11_Witness ==
  \E u \in Users :
    /\ InDelete(u)
    /\ Len(entry[u].router_list) = 2
    /\ entry[u].router_list[1].state = "populated"
    /\ entry[u].router_list[2].state = "created"
    /\ Count(calls[u], "delete_router") = 2
    /\ frame[u].pc = "ready"

\* C12: the role bound during construction is the first role of roles.list()
\* whose name is the requested one; when no role has that name
\* roles.add_user_role is still called, once, with a null role, instead of
\* the constructor failing before the binding call.
C12_FirstMatchingRoleOrNull ==
  \A u \in Users :
    InConstructor(u) =>
      LET B == Positions(calls[u], "roles.add_user_role")
          L == Positions(calls[u], "roles.list")
          named == { i \in 1..Len(roles) : roles[i].name = "admin" }
      IN  /\ Cardinality(B) <= 1
          /\ \A b \in B :
               /\ b = Len(calls[u])
               /\ calls[u][b - 1].op = "roles.list"
               /\ calls[u][b].args[1] = self[u].admin_user
               /\ calls[u][b].args[3] = self[u].tenant.tenant_id
               /\ IF named = {}
                    THEN calls[u][b].args[2] = None
                    ELSE \E i \in named :
                           /\ \A j \in named : i <= j
                           /\ calls[u][b].args[2] = roles[i].id
          /\ \A l \in L :
               calls[u][l].exc = Ok =>
                 \/ frame[u].pc = "add_user_role" /\ l = Len(calls[u])
                 \/ B = {l + 1}

C12_Witness ==
  \E u \in Users :
    /\ InConstructor(u)
    /\ \A i \in 1..Len(roles) : roles[i].name # "admin"
    /\ Positions(calls[u], "roles.add_user_role") # {}
    /\ calls[u][Len(calls[u])].args[2] = None

\* C18: a resource is recorded in the User before the call that creates it:
\* every router on which create_router was invoked is in router_list (after
\* a failure at index k the list holds k+1 routers) and key_pair is set
\* whenever add_public_key was invoked, so that delete_resources attempts
\* the teardown of every resource whose creation was attempted.
C18_RecordedBeforeCreated ==
  \A u \in Users :
    /\ InCreate(u) =>
         /\ Len(self[u].router_list) =
              Len(entry[u].router_list) + Count(calls[u], "create_router")
         /\ \A i \in Positions(calls[u], "create_router") :
              calls[u][i].exc # Ok =>
                self[u].router_list[Len(self[u].router_list)].state = "new"
         /\ Count(calls[u], "add_public_key") >= 1 =>
              /\ self[u].key_pair # None
              /\ self[u].key_name # None
    /\ (InDelete(u) /\ ReturnedOk(u)) =>
         /\ Count(calls[u], "delete_router") = Len(entry[u].router_list)
         /\ entry[u].key_pair # None => Count(calls[u], "remove_public_key") = 1

C18_Witness ==
  \E u \in Users :
    /\ FailedAtRouter(u)
    /\ entry[u].router_list = << >>
    /\ calls[u][Len(calls[u])].op = "create_router"
    /\ Count(calls[u], "create_router") = 2
    /\ Len(self[u].router_list) = 2
    /\ Count(calls[u], "add_public_key") = 1

\* the routers of a list, by name and position
RouterNames(router_list) ==
  [k \in 1..Len(router_list) |-> router_list[k].name]

\* C19: delete_resources leaves router_list, key_pair, key_name and user_id
\* unchanged whether it succeeds or fails, so a second delete_resources on
\* the same User owes the same teardown calls on the same keypair, routers
\* and user_id as the first.
C19_DeleteKeepsFields ==
  [][\A u \in Users :
       /\ frame'[u].method = "delete_resources" =>
            /\ self'[u].user_id = entry'[u].user_id
            /\ self'[u].key_pair = entry'[u].key_pair
            /\ self'[u].key_name = entry'[u].key_name
            /\ RouterNames(self'[u].router_list) = RouterNames(entry'[u].router_list)
       /\ (InDelete(u) /\ frame'[u].method = "delete_resources"
             /\ frame'[u].ops = frame[u].ops + 1) =>
            /\ Teardown(entry'[u]) = Teardown(entry[u])
            /\ Len(Teardown(entry'[u])) >= 1
     ]_vars

\* a second delete_resources in a row: no create_resources ever built the
\* clients, and two methods have run
C19_Witness ==
  \E u \in Users :
    /\ InDelete(u)
    /\ frame[u].pc = "ready"
    /\ frame[u].ops = 2
    /\ self[u].neutron_client = NoClient
    /\ Issued(calls[u]) = << << "users.delete", << self[u].user_id >> >> >>
    /\ self[u].user_id # None
    /\ calls[u][1].exc = NotFound

\* an accessor of u has returned
Accessed(u, method) ==
  frame[u].method = method /\ frame[u].pc = "ready"

\* number of instances held by the first n routers of a list
RECURSIVE InstancesBefore(_, _)
InstancesBefore(router_list, n) ==
  IF n = 0 THEN 0
  ELSE InstancesBefore(router_list, n - 1) + Len(router_list[n].instances)

\* C14: get_all_instances returns the instance sequences of the owned
\* routers concatenated in router_list order, an empty sequence when
\* router_list is empty, and changes no field of the User.
C14_AllInstancesConcatenated ==
  \A u \in Users :
    Accessed(u, "get_all_instances") =>
      LET rl == self[u].router_list
          all == frame[u].ret
      IN  /\ self[u] = entry[u]
          /\ outcome[u] = Ok
          /\ Len(all) = InstancesBefore(rl, Len(rl))
          /\ \A k \in 1..Len(rl) :
               \A j \in 1..Len(rl[k].instances) :
                 all[InstancesBefore(rl, k - 1) + j] = rl[k].instances[j]
          /\ rl = << >> => all = << >>
          /\ Len(calls[u]) = Len(rl)
          /\ \A k \in 1..Len(rl) :
               /\ calls[u][k].args = << ToString(k), rl[k].name >>
               /\ calls[u][k].ret = rl[k].instances

C14_Witness ==
  \E u \in Users :
    /\ Accessed(u, "get_all_instances")
    /\ Len(self[u].router_list) = 2
    /\ frame[u].ret = << "alice-R0-N0-I0", "alice-R0-N1-I0",
                         "alice-R1-N0-I0", "alice-R1-N1-I0" >>

\* C15: get_first_network returns None when router_list is empty and
\* otherwise the first network of the router at index 0, consulting no
\* other router and changing no field of the User.
C15_FirstNetworkOfFirstRouter ==
  \A u \in Users :
    Accessed(u, "get_first_network") =>
      LET rl == self[u].router_list
      IN  /\ self[u] = entry[u]
          /\ outcome[u] = Ok
          /\ IF rl = << >>
               THEN /\ frame[u].ret = None
                    /\ calls[u] = << >>
               ELSE /\ Len(calls[u]) = 1
                    /\ calls[u][1].args = << "1", rl[1].name >>
                    /\ frame[u].ret = IF rl[1].networks = << >> THEN None
                                      ELSE rl[1].networks[1]

C15_Witness ==
  \E u \in Users :
    /\ Accessed(u, "get_first_network")
    /\ Len(self[u].router_list) = 2
    /\ self[u].router_list[2].state = "populated"
    /\ frame[u].ret = "bob-R0-N0"

\* C16: a construction attempts the repair at most once: it issues at most
\* two users.create, one users.list and one users.delete; when the delete
\* of the stale account or the retry create fails, also with another 409
\* conflict, that error reaches the caller and no further list, delete,
\* create or role binding is issued.
C16_RepairAtMostOnce ==
  \A u \in Users :
    InConstructor(u) =>
      /\ Count(calls[u], "users.create") <= 2
      /\ Count(calls[u], "users.list") <= 1
      /\ Count(calls[u], "users.delete") <= 1
      /\ \A i \in 2..Len(calls[u]) :
           calls[u][i].exc # Ok =>
             /\ i = Len(calls[u])
             /\ frame[u].pc = "dead"
             /\ outcome[u] = calls[u][i].exc
             /\ Count(calls[u], "roles.add_user_role") =
                  IF calls[u][i].op = "roles.add_user_role" THEN 1 ELSE 0

\* the retry of some construction has met a second 409 conflict
C16_Witness ==
  \E u \in Users :
    /\ InConstructor(u)
    /\ Ops(calls[u]) = << "users.create", "users.list", "users.delete",
                          "users.create" >>
    /\ calls[u][3].exc = Ok
    /\ calls[u][4].exc = Duplicate
    /\ frame[u].pc = "dead"

\* u was constructed successfully and the account of its user_id is gone
Dangling(u) ==
  /\ Constructed(u)
  /\ self[u].user_id # None
  /\ ~ \E a \in accounts : a.id = self[u].user_id

\* C17: the conflict repair is neither atomic nor re-verified before the
\* retry.  With two constructions interleaved, a successfully constructed
\* User is left with the user_id of an account that no longer exists exactly
\* through the repair of a construction for the same user name: that
\* construction met a 409, found the account in its listing and deleted it,
\* while the role binding of the deleted account stays behind.
C17_DanglingThroughSameNameRepair ==
  \A u \in Users :
    Dangling(u) =>
      /\ \E v \in Users \ {u} :
           /\ self[v].user_name = self[u].user_name
           /\ Len(calls[v]) >= 3
           /\ calls[v][1].exc = Duplicate
           /\ \E i \in 1..Len(calls[v][2].ret) :
                /\ calls[v][2].ret[i].id = self[u].user_id
                /\ calls[v][2].ret[i].name = self[v].user_name
           /\ calls[v][3].op = "users.delete"
           /\ calls[v][3].args = << self[u].user_id >>
           /\ calls[v][3].exc = Ok
           /\ self[v].admin_user # self[u].user_id
      /\ \E b \in role_bindings : b[1] = self[u].user_id

\* both constructions have succeeded and one of them holds a dead user_id
C17_Witness ==
  \E u, v \in Users :
    /\ u # v
    /\ Dangling(u)
    /\ Constructed(v)
    /\ self[v].user_name = self[u].user_name
    /\ \E a \in accounts : a.id = self[v].user_id
    /\ calls[u][1].exc = Ok

\* u holds an account it has not deleted itself
HoldsAccount(u) ==
  /\ self[u].user_id # None
  /\ frame[u].ops <= 1
  /\ \A i \in 1..Len(calls[u]) :
       ~ /\ calls[u][i].op = "users.delete"
         /\ calls[u][i].args = << self[u].user_id >>
         /\ calls[u][i].exc = Ok

\* u is not disturbed by v: u leaves the account of v alone, the account of
\* u is there as long as u has not deleted it, and the identity service
\* answers the calls of u as it does when u runs alone
Undisturbed(u, v) ==
  /\ \A i \in 1..Len(calls[u]) :
       (/\ calls[u][i].op \in {"users.delete", "roles.add_user_role"}
        /\ self[v].admin_user # None)
         => calls[u][i].args[1] # self[v].admin_user
  /\ HoldsAccount(u) => AccountExists(self[u].user_id)
  /\ InConstructor(u) =>
       \A i \in 1..Len(calls[u]) :
         /\ calls[u][i].op = "users.delete" => calls[u][i].exc # NotFound
         /\ (i > 1 /\ calls[u][i].op = "users.create")
              => calls[u][i].exc # Duplicate
         /\ (calls[u][i].op = "roles.add_user_role" /\ calls[u][i].exc = NotFound)
              => frame[u].current_role = None
  /\ (InDelete(u) /\ frame[u].ops = 1) =>
       \A i \in 1..Len(calls[u]) :
         calls[u][i].op = "users.delete" => calls[u][i].exc # NotFound

\* C13 as stated: with the calls of several User instances interleaved in
\* any order against one identity service, every instance is independently
\* safe: it gets the answers it gets alone, and no instance deletes or
\* rebinds the account of another one.
C13_IndependentlySafe ==
  \A u \in Users : \A v \in Users \ {u} : Undisturbed(u, v)

\* C13, amended: instances constructed for pairwise distinct user names are
\* independently safe under any interleaving of their calls; the repair of a
\* construction selects accounts by name, so instances of one name are not.
C13_IndependentForDistinctNames ==
  \A u \in Users : \A v \in Users \ {u} :
    self[u].user_name # self[v].user_name => Undisturbed(u, v)

\* one instance was constructed through the repair while another one, of a
\* different name, has provisioned or torn down its resources
C13_Witness ==
  \E u \in Users : \E v \in Users \ {u} :
    /\ Constructed(u)
    /\ calls[u][1].exc = Duplicate
    /\ self[v].user_name \notin {None, self[u].user_name}
    /\ InDelete(v) /\ ReturnedOk(v)
    /\ frame[v].ops = 2
    /\ ~ AccountExists(self[v].user_id)
    /\ AccountExists(self[u].user_id)
====
